---- MODULE Spec2Model ----
(***************************************************************************)
(* Verification model of vocdoni-z-sandbox:                                *)
(*   crypto/elgamal/ciphertext.go  (Ciphertext: Encrypt, Add, Serialize,   *)
(*                                  Deserialize)                           *)
(*   api/process.go                (POST /process, GET /process)           *)
(* The curve arithmetic, the coordinate conversions, the key generation    *)
(* and the key store live in packages whose source is not part of the      *)
(* files modelled here; they are modelled from the design document, over a *)
(* small twisted-Edwards curve.                                            *)
(***************************************************************************)
EXTENDS Integers, Sequences, FiniteSets, TLC

(***************************************************************************)
(* Bounds of the model.                                                    *)
(***************************************************************************)
MaxMsg == 1        \* messages encrypted are 0..MaxMsg
NumKeys == 2       \* secret keys a keypair is drawn from: 1..NumKeys
MaxCoord == 5      \* coordinates written into crafted inputs: 0..MaxCoord

(***************************************************************************)
(* The curve: a twisted-Edwards curve a*x^2 + y^2 = 1 + d*x^2*y^2 over     *)
(* F_P in its native form, and its reduced form (a = -1) reached by        *)
(* scaling x with ScalingFactor.                                           *)
(***************************************************************************)
P == 5
CurveA == 1
CurveD == 3
ScalingFactor == 2
sizePointCoord == 32

Fp == 0 .. (P - 1)

\* f as an explicit table: every value is computed once
Tabulate(f) == f @@ <<>>

Inv(v) == CHOOSE w \in Fp : (v * w) % P = IF v % P = 0 THEN 0 ELSE 1

\* native (TE) curve membership
OnCurve(x, y) ==
    /\ x \in Fp
    /\ y \in Fp
    /\ (CurveA * x * x + y * y) % P = (1 + CurveD * x * x * y * y) % P

Points == {pt \in Fp \X Fp : OnCurve(pt[1], pt[2])}

Identity == <<0, 1>>

\* complete twisted-Edwards addition law
EdwardsAdd(a, b) ==
    LET x1 == a[1]
        y1 == a[2]
        x2 == b[1]
        y2 == b[2]
        t == (CurveD * x1 * x2 * y1 * y2) % P
        nx == (x1 * y2 + y1 * x2) % P
        ny == (y1 * y2 + (P - CurveA) * x1 * x2) % P
    IN  << (nx * Inv((1 + t) % P)) % P, (ny * Inv((1 + P - t) % P)) % P >>

\* the group law, tabulated over the points of the curve
AddTable == Tabulate([a \in Points, b \in Points |-> EdwardsAdd(a, b)])

PointAdd(a, b) == AddTable[a, b]

PointNeg(a) == << (P - a[1]) % P, a[2] >>

RECURSIVE Times(_, _)
Times(a, n) == IF n = 0 THEN Identity ELSE PointAdd(a, Times(a, n - 1))

\* scalar multiplication, tabulated over the points and 0..#points
MulTable == Tabulate([a \in Points, n \in 0 .. Cardinality(Points) |-> Times(a, n)])

ScalarMult(a, n) == MulTable[a, n]

Generator == <<1, 0>>

ScalarBaseMult(n) == ScalarMult(Generator, n)

Order == CHOOSE n \in 1 .. (P * P) :
            /\ ScalarBaseMult(n) = Identity
            /\ \A m \in 1 .. (n - 1) : ScalarBaseMult(m) # Identity

Scalars == 0 .. (Order - 1)

\* format.FromTEtoRTE / format.FromRTEtoTE: x is scaled, y is kept
FromTEtoRTE(x, y) == << (x * ScalingFactor) % P, y >>
FromRTEtoTE(x, y) == << (x * Inv(ScalingFactor)) % P, y >>

\* membership of the reduced curve, whose a is -1
OnCurveRTE(x, y) ==
    /\ x \in Fp
    /\ y \in Fp
    /\ OnCurve((x * Inv(ScalingFactor)) % P, y)


(***************************************************************************)
(* Byte encoding of coordinates (arbo.BigIntToBytes / arbo.BytesToBigInt): *)
(* little-endian, padded with zero bytes or cut to the requested length.   *)
(***************************************************************************)
ByteBase == 256

RECURSIVE BigIntToBytes(_, _)
BigIntToBytes(blen, bi) ==
    IF blen = 0 THEN <<>>
    ELSE <<bi % ByteBase>> \o BigIntToBytes(blen - 1, bi \div ByteBase)

\* the little-endian value of b[from..to]
RECURSIVE LittleEndian(_, _, _)
LittleEndian(b, from, to) ==
    IF from > to THEN 0 ELSE b[from] + ByteBase * LittleEndian(b, from + 1, to)

BytesToBigInt(b) == LittleEndian(b, 1, Len(b))

(***************************************************************************)
(* Curve Point capability set (ecc.Point).                                 *)
(***************************************************************************)
\* curve.New(): the identity element
New == Identity

\* p.Point(): the native coordinates
Point(pt) == pt

\* g.SetPoint(x, y): the element with these native coordinates; a pair that
\* is not on the curve reconstructs nothing and g keeps its value.  The
\* method returns a Point and no error.
SetPoint(g, xy) == IF OnCurve(xy[1], xy[2]) THEN xy ELSE g

\* g.SafeAdd(a, b): group addition stored in g
SafeAdd(a, b) == PointAdd(a, b)

(***************************************************************************)
(* ElGamal primitives used by Ciphertext.Encrypt.                          *)
(***************************************************************************)
\* outcomes of the entropy source
RandFail == <<>>
RandOutcomes == {<<r>> : r \in Scalars} \cup {RandFail}

\* RandK(): a scalar, or an error when the entropy source fails
RandK(rnd) == IF rnd = RandFail THEN [k |-> <<>>, err |-> "randomness"]
              ELSE [k |-> rnd, err |-> "nil"]

\* EncryptWithK(pubKey, msg, k): C1 = k*G, C2 = msg*G + k*pubKey
ElGamal(publicKey, message, k) ==
    [c1 |-> ScalarBaseMult(k % Order),
     c2 |-> PointAdd(ScalarBaseMult(message % Order), ScalarMult(publicKey, k % Order)),
     err |-> "nil"]

\* the same, tabulated over the keys, messages and scalars of the model
ElGamalTable ==
    Tabulate([publicKey \in Points, message \in 0 .. MaxMsg, k \in Scalars |->
                ElGamal(publicKey, message, k)])

EncryptWithK(publicKey, message, k) == ElGamalTable[publicKey, message, k]

\* public key of a secret key
PublicKey(secret) == ScalarBaseMult(secret % Order)

\* the tally range searched by decryption
MaxTally == Order - 1

\* brute-force discrete-log decryption over 0..MaxTally; <<>> if none fits
Decrypt(secret, z) ==
    LET m == PointAdd(z.C2, PointNeg(ScalarMult(z.C1, secret % Order)))
        fits == {v \in 0 .. MaxTally : ScalarBaseMult(v) = m}
    IN  IF fits = {} THEN <<>> ELSE <<CHOOSE v \in fits : \A w \in fits : v <= w>>

(***************************************************************************)
(* Ciphertext (crypto/elgamal/ciphertext.go).                              *)
(***************************************************************************)
\* NewCiphertext(curve)
NewCiphertext == [C1 |-> New, C2 |-> New]

NilK == <<>>

\* Encrypt storing the two points in the wrong fields
EncryptSwapped(z, message, publicKey, k, rnd) ==
    IF k = NilK /\ RandK(rnd).err # "nil"
    THEN [z |-> z, err |-> "randomness", returned |-> FALSE, draws |-> <<rnd>>]
    ELSE [z |-> [C1 |-> EncryptWithK(publicKey, message,
                                     IF k = NilK THEN RandK(rnd).k[1] ELSE k[1]).c2,
                 C2 |-> EncryptWithK(publicKey, message,
                                     IF k = NilK THEN RandK(rnd).k[1] ELSE k[1]).c1],
          err |-> "nil", returned |-> TRUE,
          draws |-> IF k = NilK THEN <<rnd>> ELSE <<>>]

\* Encrypt falling back to a fixed scalar when the entropy source fails
EncryptFallback(z, message, publicKey, k, rnd) ==
    [z |-> [C1 |-> EncryptWithK(publicKey, message,
                                IF k # NilK THEN k[1]
                                ELSE IF rnd = RandFail THEN 1 ELSE rnd[1]).c1,
            C2 |-> EncryptWithK(publicKey, message,
                                IF k # NilK THEN k[1]
                                ELSE IF rnd = RandFail THEN 1 ELSE rnd[1]).c2],
     err |-> "nil", returned |-> TRUE,
     draws |-> IF k = NilK THEN <<rnd>> ELSE <<>>]

\* z.Encrypt(message, publicKey, k): rnd is what the entropy source yields if
\* it is asked.  Result: the receiver after the call, the returned error,
\* whether a Ciphertext is returned, and the outcomes drawn from the source.
Encrypt(z, message, publicKey, k, rnd) ==
    IF k = NilK /\ RandK(rnd).err # "nil"
    THEN [z |-> z, err |-> "randomness", returned |-> FALSE, draws |-> <<rnd>>]
    ELSE IF EncryptWithK(publicKey, message,
                         IF k = NilK THEN RandK(rnd).k[1] ELSE k[1]).err # "nil"
    THEN [z |-> z, err |-> "encrypt", returned |-> FALSE,
          draws |-> IF k = NilK THEN <<rnd>> ELSE <<>>]
    ELSE [z |-> [C1 |-> EncryptWithK(publicKey, message,
                                     IF k = NilK THEN RandK(rnd).k[1] ELSE k[1]).c1,
                 C2 |-> EncryptWithK(publicKey, message,
                                     IF k = NilK THEN RandK(rnd).k[1] ELSE k[1]).c2],
          err |-> "nil", returned |-> TRUE,
          draws |-> IF k = NilK THEN <<rnd>> ELSE <<>>]

\* Add summing C2 of x with C1 of y
AddCrossed(z, x, y) ==
    [C1 |-> SafeAdd(x.C1, y.C1), C2 |-> SafeAdd(x.C2, y.C1)]

\* z.Add(x, y): the receiver after the call (which is also what is returned)
Add(z, x, y) ==
    [C1 |-> SafeAdd(x.C1, y.C1), C2 |-> SafeAdd(x.C2, y.C2)]

\* Serialize writing the native coordinates, without the conversion
SerializeNative(z) ==
    BigIntToBytes(sizePointCoord, Point(z.C1)[1]) \o BigIntToBytes(sizePointCoord, Point(z.C1)[2])
    \o BigIntToBytes(sizePointCoord, Point(z.C2)[1]) \o BigIntToBytes(sizePointCoord, Point(z.C2)[2])

\* Serialize writing C2 before C1
SerializeSwapped(z) ==
    LET c1 == FromTEtoRTE(Point(z.C1)[1], Point(z.C1)[2])
        c2 == FromTEtoRTE(Point(z.C2)[1], Point(z.C2)[2])
    IN  BigIntToBytes(sizePointCoord, c2[1]) \o BigIntToBytes(sizePointCoord, c2[2])
        \o BigIntToBytes(sizePointCoord, c1[1]) \o BigIntToBytes(sizePointCoord, c1[2])

\* z.Serialize()
Serialize(z) ==
    LET c1 == FromTEtoRTE(Point(z.C1)[1], Point(z.C1)[2])
        c2 == FromTEtoRTE(Point(z.C2)[1], Point(z.C2)[2])
    IN  BigIntToBytes(sizePointCoord, c1[1]) \o BigIntToBytes(sizePointCoord, c1[2])
        \o BigIntToBytes(sizePointCoord, c2[1]) \o BigIntToBytes(sizePointCoord, c2[2])

\* readBigInt(offset) of Deserialize
readBigInt(data, offset) ==
    LittleEndian(data, offset + 1, offset + sizePointCoord)

\* Deserialize whose length guard rejects only inputs that are too short
DeserializeShortOnly(z, data) ==
    IF Len(data) < 4 * sizePointCoord
    THEN [z |-> z, err |-> "decode"]
    ELSE LET c1 == SetPoint(z.C1, FromRTEtoTE(readBigInt(data, 0 * sizePointCoord),
                                              readBigInt(data, 1 * sizePointCoord)))
             c2 == SetPoint(z.C2, FromRTEtoTE(readBigInt(data, 2 * sizePointCoord),
                                              readBigInt(data, 3 * sizePointCoord)))
         IN  [z |-> [C1 |-> c1, C2 |-> c2], err |-> "nil"]

\* z.Deserialize(data): the receiver after the call and the returned error
Deserialize(z, data) ==
    IF Len(data) # 4 * sizePointCoord
    THEN [z |-> z, err |-> "decode"]
    ELSE LET c1 == SetPoint(z.C1, FromRTEtoTE(readBigInt(data, 0 * sizePointCoord),
                                              readBigInt(data, 1 * sizePointCoord)))
             c2 == SetPoint(z.C2, FromRTEtoTE(readBigInt(data, 2 * sizePointCoord),
                                              readBigInt(data, 3 * sizePointCoord)))
         IN  [z |-> [C1 |-> c1, C2 |-> c2], err |-> "nil"]


(***************************************************************************)
(* State.                                                                  *)
(*   ct       the Ciphertext objects                                       *)
(*   plain    history: the sum of the messages an object encrypts, {m},    *)
(*            or {} when it was not built from Encrypt and Add alone or    *)
(*            the sum left the tally range                                 *)
(*   sk       the secret key of the keypair in use                         *)
(*   last     the last Ciphertext call: its arguments and what it returned *)
(*   storage  the key store of the API: process id -> keypair              *)
(*   api      the last HTTP request: its inputs, the responses written and *)
(*            the storage calls made                                       *)
(***************************************************************************)
VARIABLES ct, plain, sk, last, storage, api, issued, vote, batch

vars == <<ct, plain, sk, last, storage, api, issued, vote, batch>>
cipherVars == <<ct, plain, sk, last>>
apiVars == <<storage, api>>
proofVars == <<vote, batch>>

\* the running tally and the ciphertext of the current ballot
Objs == {"tally", "ballot"}

Messages == 0 .. MaxMsg
SecretKeys == 1 .. NumKeys

NoCall ==
    [op |-> "none", recv |-> "", x |-> "", y |-> "", msg |-> 0, k |-> NilK,
     data |-> <<>>, out |-> <<>>, err |-> "nil", returned |-> FALSE, draws |-> <<>>]

(***************************************************************************)
(* Inputs of Deserialize: the encodings of all valid ciphertexts, 128-byte *)
(* inputs in which one coordinate of a valid encoding is replaced, so that *)
(* a point is off the curve or a chunk is out of the field, and inputs of  *)
(* a wrong length.                                                         *)
(***************************************************************************)
Ciphertexts == [C1 : Points, C2 : Points]

Encode4(c) ==
    BigIntToBytes(sizePointCoord, c[1]) \o BigIntToBytes(sizePointCoord, c[2])
    \o BigIntToBytes(sizePointCoord, c[3]) \o BigIntToBytes(sizePointCoord, c[4])

\* a value that needs two bytes
WideCoord == ByteBase + 1

CoordVals == (0 .. MaxCoord) \cup {WideCoord}

GeneratorRTE == FromTEtoRTE(Generator[1], Generator[2])

BaseCoords == <<GeneratorRTE[1], GeneratorRTE[2], GeneratorRTE[1], GeneratorRTE[2]>>

\* the four chunks of a 128-byte input, decoded
Chunks(data) == [j \in 1 .. 4 |-> readBigInt(data, (j - 1) * sizePointCoord)]

\* every chunk is a field element and both pairs are points of the reduced curve
WellFormed(data) ==
    /\ Len(data) = 4 * sizePointCoord
    /\ OnCurveRTE(Chunks(data)[1], Chunks(data)[2])
    /\ OnCurveRTE(Chunks(data)[3], Chunks(data)[4])

ValidData == {Serialize(c) : c \in Ciphertexts}

BadData ==
    {d \in {Encode4([BaseCoords EXCEPT ![j] = v]) : j \in 1 .. 4, v \in CoordVals} :
        ~WellFormed(d)}

WrongLengths == {0, sizePointCoord, 4 * sizePointCoord - 1, 4 * sizePointCoord + 1}

WrongLengthData == {SubSeq(Encode4(BaseCoords) \o <<0>>, 1, n) : n \in WrongLengths}

DataSet == ValidData \cup BadData \cup WrongLengthData

\* Serialize and Deserialize, tabulated over the ciphertexts and inputs of the model
SerializeTable == Tabulate([c \in Ciphertexts |-> Serialize(c)])
DeserializeTable == Tabulate([c \in Ciphertexts, d \in DataSet |-> Deserialize(c, d)])

(***************************************************************************)
(* API layer (api/process.go) and its collaborators.                       *)
(***************************************************************************)
Signers == {1}
Addresses == {1, 2}
ChainIDs == {1}
Nonces == {1, 2}

RECURSIVE Decimal(_)
Decimal(n) == IF n < 10 THEN <<n>> ELSE Decimal(n \div 10) \o <<n % 10>>

\* fmt.Sprintf("%d%d", p.ChainID, p.Nonce)
SignedMessage(chainID, nonce) == Decimal(chainID) \o Decimal(nonce)

SignedMessages == {SignedMessage(c, n) : c \in ChainIDs, n \in Nonces}

\* signatures: one that recovers to no key, and those of a signer over a message
BadSignature == [signer |-> 0, over |-> <<>>]
Signatures == {BadSignature} \cup [signer : Signers, over : SignedMessages]

\* ethereum.AddrFromSignature(msg, sig): the signer when sig covers msg;
\* recovery over another message yields another address
AddrFromSignature(msg, sig) ==
    IF sig = BadSignature THEN [addr |-> 0, err |-> "recover"]
    ELSE IF sig.over = msg THEN [addr |-> sig.signer, err |-> "nil"]
    ELSE [addr |-> CHOOSE b \in Addresses : b # sig.signer, err |-> "nil"]

\* request bodies after json decoding: undecodable, or a Process
MalformedBody == [ok |-> FALSE, ChainID |-> 0, Nonce |-> 0, Signature |-> BadSignature]
Bodies ==
    {MalformedBody}
    \cup [ok : {TRUE}, ChainID : ChainIDs, Nonce : Nonces, Signature : Signatures]

ProcessIDs == [Address : Addresses, Nonce : Nonces, ChainID : ChainIDs]

\* types.ProcessID.Marshal / Unmarshal: the three fields, one byte each
Marshal(pid) == <<pid.ChainID, pid.Address, pid.Nonce>>

Unmarshal(b) ==
    IF Len(b) # Len(Marshal([Address |-> 0, Nonce |-> 0, ChainID |-> 0]))
    THEN [pid |-> [Address |-> 0, Nonce |-> 0, ChainID |-> 0], err |-> "length"]
    ELSE [pid |-> [Address |-> b[2], Nonce |-> b[3], ChainID |-> b[1]], err |-> "nil"]

\* hex strings are sequences of digits 0..15; NotHex is a character that is none
HexBase == 16
NotHex == HexBase

RECURSIVE HexEncode(_)
HexEncode(b) ==
    IF b = <<>> THEN <<>>
    ELSE <<Head(b) \div HexBase, Head(b) % HexBase>> \o HexEncode(Tail(b))

RECURSIVE HexBytes(_)
HexBytes(str) ==
    IF str = <<>> THEN <<>>
    ELSE <<str[1] * HexBase + str[2]>> \o HexBytes(SubSeq(str, 3, Len(str)))

\* hex.DecodeString
HexDecode(str) ==
    IF Len(str) % 2 # 0 \/ \E j \in 1 .. Len(str) : str[j] \notin 0 .. (HexBase - 1)
    THEN [bytes |-> <<>>, err |-> "hex"]
    ELSE [bytes |-> HexBytes(str), err |-> "nil"]

\* ids given to GET /process: those of all process ids, of a process id that
\* was never created, and malformed ones
UnknownPid == [Address |-> Cardinality(Addresses) + 1, Nonce |-> 0, ChainID |-> 0]

MalformedIds ==
    {<<0>>, <<0, NotHex>>, HexEncode(<<0, 0>>), HexEncode(Marshal(UnknownPid) \o <<0>>)}

IdSet == {HexEncode(Marshal(pid)) : pid \in ProcessIDs \cup {UnknownPid}} \cup MalformedIds

\* elgamal.GenerateKey(curve): kg is what the entropy source yields
KeygenFail == <<>>
KeygenOutcomes == {<<d>> : d \in SecretKeys} \cup {KeygenFail}

GenerateKey(kg) ==
    IF kg = KeygenFail THEN [pub |-> Identity, priv |-> 0, err |-> "keygen"]
    ELSE [pub |-> PublicKey(kg[1]), priv |-> kg[1], err |-> "nil"]

\* storage.StoreEncryptionKeys(pid, pub, priv): a keyed put, which may fail
StoreEncryptionKeys(store, pid, pub, priv, fails) ==
    IF fails THEN [store |-> store, err |-> "storage"]
    ELSE [store |-> [q \in DOMAIN store \cup {pid} |->
                        IF q = pid THEN [pub |-> pub, priv |-> priv] ELSE store[q]],
          err |-> "nil"]

\* storage.LoadEncryptionKeys(pid)
LoadEncryptionKeys(store, pid) ==
    IF pid \in DOMAIN store
    THEN [pub |-> store[pid].pub, priv |-> store[pid].priv, err |-> "nil"]
    ELSE [pub |-> Identity, priv |-> 0, err |-> "notfound"]

\* what a handler writes to the http.ResponseWriter
ErrorResponse(code) == [status |-> "error", code |-> code, body |-> <<>>]
JSONResponse(pr) == [status |-> "ok", code |-> "", body |-> <<pr>>]

ProcessResponse(pid, address, chainID, nonce, pub) ==
    [ProcessID |-> Marshal(pid), Address |-> address, ChainID |-> chainID,
     Nonce |-> nonce, EncryptionPubKey |-> <<Point(pub)[1], Point(pub)[2]>>,
     StateRoot |-> <<>>]

StoreCall(pid, pub, priv, err) == [pid |-> pid, pub |-> pub, priv |-> priv, err |-> err]

\* newProcess answering with the process although the keys were not stored
newProcessIgnoresStore(store, body, kg, storeFails) ==
    IF ~body.ok
    THEN [w |-> <<ErrorResponse("ErrMalformedBody")>>, store |-> store, stores |-> <<>>]
    ELSE LET rec == AddrFromSignature(SignedMessage(body.ChainID, body.Nonce),
                                      body.Signature)
             pid == [Address |-> rec.addr, Nonce |-> body.Nonce, ChainID |-> body.ChainID]
             key == GenerateKey(kg)
             pr == ProcessResponse(pid, 0, 0, 0, key.pub)
             st == StoreEncryptionKeys(store, pid, key.pub, key.priv, storeFails)
         IN  IF rec.err # "nil"
             THEN [w |-> <<ErrorResponse("ErrInvalidSignature")>>, store |-> store,
                   stores |-> <<>>]
             ELSE IF key.err # "nil"
             THEN [w |-> <<ErrorResponse("ErrGenericInternalServerError")>>,
                   store |-> store, stores |-> <<>>]
             ELSE [w |-> <<JSONResponse(pr)>>, store |-> st.store,
                   stores |-> <<StoreCall(pid, key.pub, key.priv, st.err)>>]

\* newProcess answering with the private key in the state root field
newProcessLeaksKey(store, body, kg, storeFails) ==
    IF ~body.ok
    THEN [w |-> <<ErrorResponse("ErrMalformedBody")>>, store |-> store, stores |-> <<>>]
    ELSE LET rec == AddrFromSignature(SignedMessage(body.ChainID, body.Nonce),
                                      body.Signature)
             pid == [Address |-> rec.addr, Nonce |-> body.Nonce, ChainID |-> body.ChainID]
             key == GenerateKey(kg)
             pr == [ProcessResponse(pid, 0, 0, 0, key.pub) EXCEPT !.StateRoot = <<key.priv>>]
             st == StoreEncryptionKeys(store, pid, key.pub, key.priv, storeFails)
         IN  IF rec.err # "nil"
             THEN [w |-> <<ErrorResponse("ErrInvalidSignature")>>, store |-> store,
                   stores |-> <<>>]
             ELSE IF key.err # "nil"
             THEN [w |-> <<ErrorResponse("ErrGenericInternalServerError")>>,
                   store |-> store, stores |-> <<>>]
             ELSE IF st.err # "nil"
             THEN [w |-> <<ErrorResponse("ErrGenericInternalServerError")>>,
                   store |-> st.store,
                   stores |-> <<StoreCall(pid, key.pub, key.priv, st.err)>>]
             ELSE [w |-> <<JSONResponse(pr)>>, store |-> st.store,
                   stores |-> <<StoreCall(pid, key.pub, key.priv, st.err)>>]

\* API.newProcess: the responses written, the store after the call and the
\* StoreEncryptionKeys calls made
newProcess(store, body, kg, storeFails) ==
    IF ~body.ok
    THEN [w |-> <<ErrorResponse("ErrMalformedBody")>>, store |-> store, stores |-> <<>>]
    ELSE LET rec == AddrFromSignature(SignedMessage(body.ChainID, body.Nonce),
                                      body.Signature)
             pid == [Address |-> rec.addr, Nonce |-> body.Nonce, ChainID |-> body.ChainID]
             key == GenerateKey(kg)
             pr == ProcessResponse(pid, 0, 0, 0, key.pub)
             st == StoreEncryptionKeys(store, pid, key.pub, key.priv, storeFails)
         IN  IF rec.err # "nil"
             THEN [w |-> <<ErrorResponse("ErrInvalidSignature")>>, store |-> store,
                   stores |-> <<>>]
             ELSE IF key.err # "nil"
             THEN [w |-> <<ErrorResponse("ErrGenericInternalServerError")>>,
                   store |-> store, stores |-> <<>>]
             ELSE IF st.err # "nil"
             THEN [w |-> <<ErrorResponse("ErrGenericInternalServerError")>>,
                   store |-> st.store,
                   stores |-> <<StoreCall(pid, key.pub, key.priv, st.err)>>]
             ELSE [w |-> <<JSONResponse(pr)>>, store |-> st.store,
                   stores |-> <<StoreCall(pid, key.pub, key.priv, st.err)>>]

\* process answering an unknown id with the keys the failed load left behind
processIgnoresLoad(store, id) ==
    LET dec == HexDecode(id)
        un == Unmarshal(dec.bytes)
        ld == LoadEncryptionKeys(store, un.pid)
    IN  IF dec.err # "nil"
        THEN [w |-> <<ErrorResponse("ErrMalformedProcessID")>>, store |-> store,
              stores |-> <<>>, loads |-> 0]
        ELSE IF un.err # "nil"
        THEN [w |-> <<ErrorResponse("ErrMalformedProcessID")>>, store |-> store,
              stores |-> <<>>, loads |-> 0]
        ELSE [w |-> <<JSONResponse(ProcessResponse(un.pid, un.pid.Address,
                                                   un.pid.ChainID, un.pid.Nonce, ld.pub))>>,
              store |-> store, stores |-> <<>>, loads |-> 1]

\* API.process: the responses written, the store after the call, the
\* StoreEncryptionKeys calls and the number of LoadEncryptionKeys calls made
process(store, id) ==
    LET dec == HexDecode(id)
        un == Unmarshal(dec.bytes)
        ld == LoadEncryptionKeys(store, un.pid)
    IN  IF dec.err # "nil"
        THEN [w |-> <<ErrorResponse("ErrMalformedProcessID")>>, store |-> store,
              stores |-> <<>>, loads |-> 0]
        ELSE IF un.err # "nil"
        THEN [w |-> <<ErrorResponse("ErrMalformedProcessID")>>, store |-> store,
              stores |-> <<>>, loads |-> 0]
        ELSE IF ld.err # "nil"
        THEN [w |-> <<ErrorResponse("ErrProcessNotFound")>>, store |-> store,
              stores |-> <<>>, loads |-> 1]
        ELSE [w |-> <<JSONResponse(ProcessResponse(un.pid, un.pid.Address,
                                                   un.pid.ChainID, un.pid.Nonce, ld.pub))>>,
              store |-> store, stores |-> <<>>, loads |-> 1]

NoRequest ==
    [req |-> "none", body |-> MalformedBody, kg |-> KeygenFail, storeFails |-> FALSE,
     id |-> <<>>, w |-> <<>>, stores |-> <<>>, loads |-> 0]

(***************************************************************************)
(* Vote and aggregation predicates.  The tests build the witnesses; the    *)
(* circuits, the proving backend, the census and the hash functions are    *)
(* taken at their interface.  Hashes are collision-free: a digest is the   *)
(* name of the function with what was absorbed.                            *)
(***************************************************************************)
\* the process parameters of the tests
maxCount == 5
forceUniqueness == 0
maxValue == 16
minValue == 0
costExp == 2
costFromWeight == 0
weight == 10

Params ==
    <<maxCount, forceUniqueness, maxValue, minValue, (maxValue ^ costExp) * maxCount,
      maxCount, costExp, costFromWeight>>

\* voters of a batch, and what util.RandomBytes yields (process ids, secrets)
MaxVoters == 2
MaxRandom == 2
VoterKeys == 1 .. MaxVoters
RandomValues == 1 .. MaxRandom

\* GenerateECDSAaccount: the public key and the address of a private key
AddressStride == 7
PubKeyOf(priv) == [key |-> priv]
AddressOf(priv) == AddressStride * priv

\* SignECDSA and the signature check of the predicate
SignECDSA(priv, msg) == [signer |-> priv, over |-> msg]
VerifyECDSA(pub, msg, sig) == sig.signer = pub.key /\ sig.over = msg

\* MockedCommitmentAndNullifier: a one-way derivation from (address, process
\* id, secret), one-to-one on the values of the model
MixBase == 32
Mix(a, b, c) == (a * MixBase + b) * MixBase + c
Commitment(address, pid, secret) == Mix(address, secret, pid)
Nullifier(address, pid, secret) == Mix(secret, address, pid)

\* mimc7.Hash over a list, arbo.BigToFF into the field of the vote circuit,
\* and MiMC over the written blocks
Mimc7(list) == [fn |-> "mimc7", of |-> list]
BigToFF(h) == [fn |-> "bls12377", of |-> <<h>>]
MiMC(blocks) == [fn |-> "mimc_bls12377", of |-> blocks]

\* GenerateCensusProofForTest for voters 1 .. n: the root and one proof per voter
RootOf(n) == 2 ^ (n + 1) - 2
CensusProofOf(n, i) ==
    [Key |-> AddressOf(i), Value |-> weight,
     Siblings |-> [root |-> RootOf(n), key |-> AddressOf(i), value |-> weight]]
GenerateCensusProofForTest(n) ==
    [Root |-> RootOf(n), Proofs |-> [i \in 1 .. n |-> CensusProofOf(n, i)]]

\* the census check of the predicate
VerifyCensus(root, address, value, siblings) ==
    siblings.root = root /\ siblings.key = address /\ siblings.value = value

\* CipherBallotFields: the coordinates of the encrypted field in reduced form
CipherBallotFields(field, encryptionKey, k) ==
    FromTEtoRTE(EncryptWithK(encryptionKey, field, k).c1[1],
                EncryptWithK(encryptionKey, field, k).c1[2])
    \o FromTEtoRTE(EncryptWithK(encryptionKey, field, k).c2[1],
                   EncryptWithK(encryptionKey, field, k).c2[2])

\* the list hashed into the inputs hash of the client proof
CircomInputsList(address, pid, encryptionKey, nullifier, commitment, coords) ==
    Params \o <<address, weight, pid, Point(encryptionKey)[1], Point(encryptionKey)[2],
                nullifier, commitment>> \o coords

\* the client proof: made only for inputs that satisfy the ballot circuit,
\* and valid for the inputs hash it was made for
Circom2GnarkProof(in) ==
    IF /\ in.nullifier = Nullifier(in.address, in.process_id, in.secret)
       /\ in.commitment = Commitment(in.address, in.process_id, in.secret)
       /\ in.cipherfields = CipherBallotFields(in.field, in.pk, in.k)
       /\ in.inputs_hash = Mimc7(CircomInputsList(in.address, in.process_id, in.pk,
                                                  in.nullifier, in.commitment,
                                                  in.cipherfields))
    THEN [Proof |-> [statement |-> <<in.inputs_hash>>],
          PublicInputs |-> <<in.inputs_hash>>, err |-> "nil"]
    ELSE [Proof |-> [statement |-> <<>>], PublicInputs |-> <<>>, err |-> "circom"]

\* the hash of the vote circuit inputs: the inputs hash of the client proof
\* and the census root
OuterHash(blsCircomInputsHash, root) == MiMC(<<blsCircomInputsHash, root>>)

\* a witness whose signature is made by a key other than the voter's
BuildVoteWitnessOtherSigner(census, i, pid, encryptionKey, secret, k, field) ==
    LET address == AddressOf(i)
        coords == CipherBallotFields(field, encryptionKey, k)
        commitment == Commitment(address, pid, secret)
        nullifier == Nullifier(address, pid, secret)
        circomInputsHash ==
            Mimc7(CircomInputsList(address, pid, encryptionKey, nullifier, commitment,
                                   coords))
        circomProof ==
            Circom2GnarkProof([address |-> address, process_id |-> pid,
                               pk |-> encryptionKey, k |-> k, field |-> field,
                               cipherfields |-> coords, nullifier |-> nullifier,
                               commitment |-> commitment, secret |-> secret,
                               inputs_hash |-> circomInputsHash])
        blsCircomInputsHash == BigToFF(circomInputsHash)
    IN  [InputsHash |-> OuterHash(blsCircomInputsHash, census.Root),
         Params |-> Params, Address |-> address, UserWeight |-> weight,
         EncryptionPubKey |-> <<Point(encryptionKey)[1], Point(encryptionKey)[2]>>,
         Nullifier |-> nullifier, Commitment |-> commitment, ProcessId |-> pid,
         EncryptedBallot |-> coords,
         CensusRoot |-> census.Root, CensusSiblings |-> census.Proofs[1].Siblings,
         Msg |-> blsCircomInputsHash, PublicKey |-> PubKeyOf(i),
         Signature |-> SignECDSA(i + 1, blsCircomInputsHash),
         CircomProof |-> circomProof.Proof,
         CircomPublicInputsHash |-> circomProof.PublicInputs]

\* the witness of the vote circuit for voter i, as the tests build it
BuildVoteWitness(census, i, pid, encryptionKey, secret, k, field) ==
    LET address == AddressOf(i)
        coords == CipherBallotFields(field, encryptionKey, k)
        commitment == Commitment(address, pid, secret)
        nullifier == Nullifier(address, pid, secret)
        circomInputsHash ==
            Mimc7(CircomInputsList(address, pid, encryptionKey, nullifier, commitment,
                                   coords))
        circomProof ==
            Circom2GnarkProof([address |-> address, process_id |-> pid,
                               pk |-> encryptionKey, k |-> k, field |-> field,
                               cipherfields |-> coords, nullifier |-> nullifier,
                               commitment |-> commitment, secret |-> secret,
                               inputs_hash |-> circomInputsHash])
        blsCircomInputsHash == BigToFF(circomInputsHash)
    IN  [InputsHash |-> OuterHash(blsCircomInputsHash, census.Root),
         Params |-> Params, Address |-> address, UserWeight |-> weight,
         EncryptionPubKey |-> <<Point(encryptionKey)[1], Point(encryptionKey)[2]>>,
         Nullifier |-> nullifier, Commitment |-> commitment, ProcessId |-> pid,
         EncryptedBallot |-> coords,
         CensusRoot |-> census.Root, CensusSiblings |-> census.Proofs[1].Siblings,
         Msg |-> blsCircomInputsHash, PublicKey |-> PubKeyOf(i),
         Signature |-> SignECDSA(i, blsCircomInputsHash),
         CircomProof |-> circomProof.Proof,
         CircomPublicInputsHash |-> circomProof.PublicInputs]

\* the inputs hash the vote circuit recomputes from the public values
InnerHash(w) ==
    Mimc7(CircomInputsList(w.Address, w.ProcessId, w.EncryptionPubKey, w.Nullifier,
                           w.Commitment, w.EncryptedBallot))

\* the vote predicate: the client proof is valid for the recomputed inputs
\* hash, the declared hash folds in the census root, the signature of the
\* declared address covers Msg, and the census proof is one of (address,
\* weight) under the declared root
VerifyVoteCircuit(w) ==
    /\ w.Params = Params
    /\ w.CircomProof.statement = w.CircomPublicInputsHash
    /\ w.CircomPublicInputsHash = <<InnerHash(w)>>
    /\ w.Msg = BigToFF(InnerHash(w))
    /\ w.InputsHash = OuterHash(w.Msg, w.CensusRoot)
    /\ VerifyECDSA(w.PublicKey, w.Msg, w.Signature)
    /\ AddressOf(w.PublicKey.key) = w.Address
    /\ VerifyCensus(w.CensusRoot, w.Address, w.UserWeight, w.CensusSiblings)

\* groth16.Prove and the verification of a proof of the vote circuit
VoteVK == "vote"
ZeroProof == [vk |-> "", public |-> <<>>]
Prove(w) ==
    IF VerifyVoteCircuit(w)
    THEN [proof |-> [vk |-> VoteVK, public |-> <<w.InputsHash>>],
          public |-> <<w.InputsHash>>, err |-> "nil"]
    ELSE [proof |-> ZeroProof, public |-> <<>>, err |-> "unsatisfied"]
VerifyProof(vk, proof, public) == proof.vk = vk /\ proof.public = public /\ public # <<>>

\* changes made to a witness before it is given to the prover
Breaking ==
    {"signature", "signer", "census", "root", "nullifier", "commitment", "address",
     "hash", "client", "ballot"}
Tampers == {"none", "recensus"} \cup Breaking
Tamper(w, t) ==
    CASE t = "signature" -> [w EXCEPT !.Signature.signer = 0]
      [] t = "signer" -> [w EXCEPT !.Signature.signer = @ + 1]
      [] t = "census" -> [w EXCEPT !.CensusSiblings.key = @ + 1]
      [] t = "root" -> [w EXCEPT !.CensusRoot = @ + 1]
      [] t = "nullifier" -> [w EXCEPT !.Nullifier = @ + 1]
      [] t = "commitment" -> [w EXCEPT !.Commitment = @ + 1]
      [] t = "address" -> [w EXCEPT !.Address = @ + 1]
      [] t = "hash" -> [w EXCEPT !.InputsHash = MiMC(<<>>)]
      [] t = "client" -> [w EXCEPT !.CircomProof.statement = <<>>]
      [] t = "ballot" -> [w EXCEPT !.EncryptedBallot[1] = (@ + 1) % P]
      [] t = "recensus" ->
            [w EXCEPT !.CensusRoot = RootOf(2),
                      !.CensusSiblings = CensusProofOf(2, 1).Siblings,
                      !.InputsHash = OuterHash(w.Msg, RootOf(2))]
      [] OTHER -> w

\* emulated elements: limbs, least significant first; big.Int.FillBytes
LimbBase == 16
NbLimbs == 4
frBytes == 2
Limbs(v) == [j \in 1 .. NbLimbs |-> (v \div (LimbBase ^ (j - 1))) % LimbBase]
FillBytes(v) == [j \in 1 .. frBytes |-> (v \div (ByteBase ^ (frBytes - j))) % ByteBase]

\* the hash over the first limb of each input only
HashFirstLimbs(publicInputs) ==
    [fn |-> "mimc_bw6761",
     of |-> [q \in 1 .. Len(publicInputs) |-> FillBytes(Limbs(publicInputs[q])[1])]]

\* ComputePublicInputsHashFromBLS12377ToBW6761: every limb of every input,
\* in order, written as one block
ComputePublicInputsHashFromBLS12377ToBW6761(publicInputs) ==
    [fn |-> "mimc_bw6761",
     of |-> [q \in 1 .. Len(publicInputs) * NbLimbs |->
                FillBytes(Limbs(publicInputs[((q - 1) \div NbLimbs) + 1])
                              [((q - 1) % NbLimbs) + 1])]]

RECURSIVE Flatten(_)
Flatten(ss) == IF ss = <<>> THEN <<>> ELSE Head(ss) \o Flatten(Tail(ss))

\* the inputs the test hashes: parameters, key, process id, census root,
\* nullifiers, commitments, addresses, ciphertext coordinates
PublicInputs(b) ==
    Params
    \o <<Point(b.encryptionKey)[1], Point(b.encryptionKey)[2], b.processID, b.census.Root>>
    \o b.nullifiers \o b.commitments \o b.addresses \o b.totalPlainCipherfields

\* the witness of the aggregator circuit
FinalWitness(b, publicHash) ==
    [InputsHash |-> publicHash, Params |-> Params,
     EncryptionPubKey |-> <<Point(b.encryptionKey)[1], Point(b.encryptionKey)[2]>>,
     ProcessId |-> b.processID, CensusRoot |-> b.census.Root,
     VerifyProofs |-> b.proofs, VerifyPublicInputs |-> b.pubInputs,
     Nullifiers |-> b.nullifiers, Commitments |-> b.commitments,
     Addresses |-> b.addresses, EncryptedBallots |-> b.encryptedBallots]

\* the batch hash the aggregator circuit recomputes from its witness
RecomputedHash(fw) ==
    ComputePublicInputsHashFromBLS12377ToBW6761(
        fw.Params \o fw.EncryptionPubKey \o <<fw.ProcessId, fw.CensusRoot>>
        \o fw.Nullifiers \o fw.Commitments \o fw.Addresses
        \o Flatten(fw.EncryptedBallots))

\* the aggregation predicate: every proof verifies against the one key of
\* the vote circuit and the declared hash is the recomputed one
AggregatorCircuit(fw, vk) ==
    /\ \A i \in 1 .. Len(fw.VerifyProofs) :
          VerifyProof(vk, fw.VerifyProofs[i], fw.VerifyPublicInputs[i])
    /\ fw.InputsHash = RecomputedHash(fw)

\* the state of TestVerifyVoteCircuit and of TestAggregatorCircuit
NoVote == [tamper |-> "none", w |-> <<>>, proved |-> FALSE]

NewBatch(n, pid, encryptionKey) ==
    [nVoters |-> n, processID |-> pid, encryptionKey |-> encryptionKey,
     census |-> GenerateCensusProofForTest(n), i |-> 0, pc |-> "loop",
     addresses |-> [j \in 1 .. n |-> AddressOf(j)],
     nullifiers |-> [j \in 1 .. n |-> 0], commitments |-> [j \in 1 .. n |-> 0],
     encryptedBallots |-> [j \in 1 .. n |-> <<>>], totalPlainCipherfields |-> <<>>,
     proofs |-> [j \in 1 .. n |-> ZeroProof], pubInputs |-> [j \in 1 .. n |-> <<>>],
     attempt |-> <<>>, started |-> FALSE, publicHash |-> <<>>, recomputed |-> <<>>,
     aggregate |-> <<>>]

\* a loop that is never entered
LoopSkipped(b) == FALSE

\* for i := 0; i < nVoters; i++
InLoop(b) == b.i < b.nVoters

(***************************************************************************)
(* Initial states.                                                         *)
(***************************************************************************)
Constructed ==
    /\ ct = [i \in Objs |-> NewCiphertext]
    /\ plain = [i \in Objs |-> {}]
    /\ last = NoCall
    /\ storage = <<>>
    /\ api = NoRequest
    /\ issued = {}
    /\ vote = NoVote

Init ==
    /\ Constructed
    /\ sk = CHOOSE d \in SecretKeys : \A e \in SecretKeys : d <= e
    /\ batch = NewBatch(1, 1, PublicKey(sk))

\* the keypair of a tally is drawn when the tally is set up
InitTally ==
    /\ Constructed
    /\ sk \in SecretKeys
    /\ batch = NewBatch(1, 1, PublicKey(sk))

\* a batch test draws the encryption key and the process id; the batch size
\* is fixed before the test runs
InitBatch ==
    /\ Constructed
    /\ sk \in SecretKeys
    /\ \E n \in 1 .. MaxVoters, pid \in RandomValues :
          batch = NewBatch(n, pid, PublicKey(sk))

(***************************************************************************)
(* Ciphertext actions.                                                     *)
(***************************************************************************)
NewCiphertextAct(i) ==
    /\ ct' = [ct EXCEPT ![i] = NewCiphertext]
    /\ plain' = [plain EXCEPT ![i] = {}]
    /\ last' = [NoCall EXCEPT !.op = "NewCiphertext", !.recv = i]
    /\ UNCHANGED <<sk, storage, api, issued, proofVars>>

EncryptAct(i, m, k, rnd) ==
    \E r \in {Encrypt(ct[i], m, PublicKey(sk), k, rnd)} :
        /\ ct' = [ct EXCEPT ![i] = r.z]
        /\ plain' = [plain EXCEPT ![i] = IF r.err = "nil" THEN {m} ELSE @]
        /\ last' = [NoCall EXCEPT !.op = "Encrypt", !.recv = i, !.msg = m, !.k = k,
                                  !.err = r.err, !.returned = r.returned,
                                  !.draws = r.draws]
        /\ UNCHANGED <<sk, storage, api, issued, proofVars>>

PlainSum(a, b) ==
    IF a = {} \/ b = {} THEN {}
    ELSE {s \in 0 .. MaxTally : \E m \in a, n \in b : s = m + n}

AddAct(z, x, y) ==
    /\ ct' = [ct EXCEPT ![z] = Add(ct[z], ct[x], ct[y])]
    /\ plain' = [plain EXCEPT ![z] = PlainSum(plain[x], plain[y])]
    /\ last' = [NoCall EXCEPT !.op = "Add", !.recv = z, !.x = x, !.y = y,
                              !.returned = TRUE]
    /\ UNCHANGED <<sk, storage, api, issued, proofVars>>

SerializeAct(i) ==
    /\ last' = [NoCall EXCEPT !.op = "Serialize", !.recv = i, !.out = SerializeTable[ct[i]]]
    /\ UNCHANGED <<ct, plain, sk, storage, api, issued, proofVars>>

DeserializeAct(i, data) ==
    \E r \in {DeserializeTable[ct[i], data]} :
        /\ ct' = [ct EXCEPT ![i] = r.z]
        /\ plain' = [plain EXCEPT ![i] = IF r.z = ct[i] THEN @ ELSE {}]
        /\ last' = [NoCall EXCEPT !.op = "Deserialize", !.recv = i, !.data = data,
                                  !.err = r.err]
        /\ UNCHANGED <<sk, storage, api, issued, proofVars>>

(***************************************************************************)
(* API actions: one request handled from start to end.                     *)
(***************************************************************************)
NewProcessReq(body, kg, storeFails) ==
    \E r \in {newProcess(storage, body, kg, storeFails)} :
        /\ storage' = r.store
        /\ api' = [NoRequest EXCEPT !.req = "POST", !.body = body, !.kg = kg,
                                    !.storeFails = storeFails, !.w = r.w,
                                    !.stores = r.stores]
        /\ UNCHANGED <<cipherVars, proofVars>>

ProcessReq(id) ==
    \E r \in {process(storage, id)} :
        /\ storage' = r.store
        /\ api' = [NoRequest EXCEPT !.req = "GET", !.id = id, !.w = r.w,
                                    !.stores = r.stores, !.loads = r.loads]
        /\ UNCHANGED <<cipherVars, proofVars>>

\* the process ids and public keys that POST /process has answered with
Issue ==
    issued' = IF api'.w[1].status = "ok"
              THEN issued \cup {[id |-> HexEncode(api'.w[1].body[1].ProcessID),
                                 pid |-> api'.stores[1].pid,
                                 pub |-> api'.w[1].body[1].EncryptionPubKey]}
              ELSE issued

(***************************************************************************)
(* Test actions: one vote witness proved, one voter of the batch loop, the *)
(* aggregation after the loop.                                             *)
(***************************************************************************)
VerifyVoteTest(pid, secret, k, field, t) ==
    /\ vote = NoVote
    /\ \E w \in {Tamper(BuildVoteWitness(GenerateCensusProofForTest(1), 1, pid,
                                        PublicKey(sk), secret, k, field), t)} :
          /\ vote' = [tamper |-> t, w |-> <<w>>, proved |-> Prove(w).err = "nil"]
          /\ UNCHANGED <<cipherVars, apiVars, issued, batch>>

LoopVote(secret, k, field) ==
    /\ batch.pc = "loop"
    /\ InLoop(batch)
    /\ \E w \in {BuildVoteWitness(batch.census, batch.i + 1, batch.processID,
                                   batch.encryptionKey, secret, k, field)} :
          \E r \in {Prove(w)} :
            batch' = [batch EXCEPT
                        !.encryptedBallots[batch.i + 1] = w.EncryptedBallot,
                        !.totalPlainCipherfields = @ \o w.EncryptedBallot,
                        !.nullifiers[batch.i + 1] = w.Nullifier,
                        !.commitments[batch.i + 1] = w.Commitment,
                        !.attempt = <<w>>,
                        !.pc = IF r.err = "nil" THEN "loop" ELSE "failed",
                        !.proofs[batch.i + 1] = IF r.err = "nil" THEN r.proof ELSE @,
                        !.pubInputs[batch.i + 1] = IF r.err = "nil" THEN r.public ELSE @,
                        !.i = IF r.err = "nil" THEN @ + 1 ELSE @]
    /\ UNCHANGED <<cipherVars, apiVars, issued, vote>>

Aggregate ==
    /\ batch.pc = "loop"
    /\ ~InLoop(batch)
    /\ \E h \in {ComputePublicInputsHashFromBLS12377ToBW6761(PublicInputs(batch))} :
          \E fw \in {FinalWitness(batch, h)} :
            batch' = [batch EXCEPT
                        !.pc = "done", !.started = TRUE,
                        !.publicHash = <<h>>,
                        !.recomputed = <<RecomputedHash(fw)>>,
                        !.aggregate = IF AggregatorCircuit(fw, VoteVK)
                                      THEN <<[InputsHash |-> h]>> ELSE <<>>]
    /\ UNCHANGED <<cipherVars, apiVars, issued, vote>>

(***************************************************************************)
(* Specifications: the wire encoding, the homomorphic tally, the API.      *)
(***************************************************************************)
NextWire ==
    \/ \E i \in Objs : NewCiphertextAct(i)
    \/ \E i \in Objs : SerializeAct(i)
    \/ \E i \in Objs, data \in DataSet : DeserializeAct(i, data)

SpecWire == Init /\ [][NextWire]_vars

NextTally ==
    \/ \E i \in Objs : NewCiphertextAct(i)
    \/ \E i \in Objs, m \in Messages, k \in {<<v>> : v \in Scalars} :
            EncryptAct(i, m, k, RandFail)
    \/ \E i \in Objs, m \in Messages, rnd \in RandOutcomes :
            EncryptAct(i, m, NilK, rnd)
    \/ \E z \in Objs, x \in Objs, y \in Objs : AddAct(z, x, y)

SpecTally == InitTally /\ [][NextTally]_vars

NextAPI ==
    \/ \E body \in Bodies, kg \in KeygenOutcomes, storeFails \in BOOLEAN :
            NewProcessReq(body, kg, storeFails) /\ UNCHANGED issued
    \/ \E id \in IdSet : ProcessReq(id) /\ UNCHANGED issued

SpecAPI == Init /\ [][NextAPI]_vars

\* the API with the answers of POST /process remembered
NextLookup ==
    \/ \E body \in Bodies, kg \in KeygenOutcomes, storeFails \in BOOLEAN :
            NewProcessReq(body, kg, storeFails) /\ Issue
    \/ \E id \in IdSet : ProcessReq(id) /\ UNCHANGED issued

SpecLookup == Init /\ [][NextLookup]_vars

NextVote ==
    \E pid \in RandomValues, secret \in RandomValues, k \in Scalars,
       field \in Messages, t \in Tampers :
        VerifyVoteTest(pid, secret, k, field, t)

SpecVote == Init /\ [][NextVote]_vars

NextBatch ==
    \/ \E secret \in RandomValues, k \in Scalars, field \in Messages :
            LoopVote(secret, k, field)
    \/ Aggregate

SpecBatch == InitBatch /\ [][NextBatch]_vars

(***************************************************************************)
(* Properties of the wire encoding (SpecWire).                             *)
(***************************************************************************)
Double(pt) == PointAdd(pt, pt)

\* a ciphertext whose four coordinates differ in their reduced form
SampleCiphertext == [C1 |-> Generator, C2 |-> Double(Generator)]

\* C1: Deserialize of the bytes Serialize gives for a valid Ciphertext z
\* returns no error and leaves the receiver with the coordinates of z.
RoundTrip ==
    \A z \in Ciphertexts :
        (last.op = "Deserialize" /\ last.data = SerializeTable[z])
            => (last.err = "nil" /\ ct[last.recv] = z)

RoundTripWitness ==
    /\ last.op = "Deserialize"
    /\ last.data = SerializeTable[SampleCiphertext]
    /\ last.recv = "ballot"
    /\ ct["ballot"] = SampleCiphertext
    /\ ct["tally"] # SampleCiphertext

\* C2: Deserialize of an input whose length is not 128 returns a decode error
\* and leaves C1 and C2 of the receiver (and every other Ciphertext) as they were.
LengthGuard ==
    [][(last'.op = "Deserialize" /\ Len(last'.data) # 4 * sizePointCoord)
          => (last'.err = "decode" /\ ct' = ct)]_vars

LengthGuardWitness ==
    /\ last.op = "Deserialize"
    /\ Len(last.data) = 4 * sizePointCoord + 1
    /\ last.err = "decode"
    /\ ct[last.recv] = SampleCiphertext

\* C3: Deserialize of 128 bytes returns an error whenever a chunk is not a
\* field element or a decoded pair is not on the curve, and never returns
\* success for such an input.
RejectsInvalidPoints ==
    (last.op = "Deserialize" /\ Len(last.data) = 4 * sizePointCoord)
        => /\ ~WellFormed(last.data) => last.err # "nil"
           /\ last.err = "nil"
                 => /\ OnCurve(ct[last.recv].C1[1], ct[last.recv].C1[2])
                    /\ OnCurve(ct[last.recv].C2[1], ct[last.recv].C2[2])

\* Deserialize returned success for 128 bytes whose first pair is (0, 0), a
\* point of no twisted Edwards curve, and took C2 from the input
AcceptsInvalidPoint ==
    /\ last.op = "Deserialize"
    /\ Len(last.data) = 4 * sizePointCoord
    /\ Chunks(last.data)[1] = 0
    /\ Chunks(last.data)[2] = 0
    /\ last.err = "nil"
    /\ ct[last.recv].C2 = Generator

\* the digit of weight ByteBase^(j-1) of v
RECURSIVE Digit(_, _)
Digit(v, j) == IF j = 1 THEN v % ByteBase ELSE Digit(v \div ByteBase, j - 1)

\* bytes from+1 .. from+sizePointCoord of out are v, little-endian
ChunkIs(out, from, v) ==
    \A j \in 1 .. sizePointCoord : out[from + j] = Digit(v, j)

\* C4: Serialize returns 128 bytes, the four 32-byte little-endian encodings
\* of C1.x, C1.y, C2.x, C2.y in reduced form, in this order, and changes no
\* Ciphertext.
SerializeLayout ==
    [][last'.op = "Serialize"
          => /\ ct' = ct
             /\ Len(last'.out) = 4 * sizePointCoord
             /\ ChunkIs(last'.out, 0 * sizePointCoord,
                        (ct[last'.recv].C1[1] * ScalingFactor) % P)
             /\ ChunkIs(last'.out, 1 * sizePointCoord, ct[last'.recv].C1[2])
             /\ ChunkIs(last'.out, 2 * sizePointCoord,
                        (ct[last'.recv].C2[1] * ScalingFactor) % P)
             /\ ChunkIs(last'.out, 3 * sizePointCoord, ct[last'.recv].C2[2])]_vars

SerializeLayoutWitness ==
    /\ last.op = "Serialize"
    /\ ct[last.recv] = SampleCiphertext
    /\ Len(last.out) = 4 * sizePointCoord
    /\ last.out[1] # last.out[2 * sizePointCoord + 1]
    /\ last.out[sizePointCoord + 1] # last.out[3 * sizePointCoord + 1]

(***************************************************************************)
(* Properties of encryption and of the homomorphic tally (SpecTally).      *)
(***************************************************************************)
\* C5: a Ciphertext built from encryptions under the public key of the
\* keypair, folded with Add in any order and grouping, decrypts under the
\* secret key to the sum of the messages, as long as the sum is in the
\* tally range.
HomomorphicTally ==
    \A i \in Objs : \A m \in plain[i] : Decrypt(sk, ct[i]) = <<m>>

HomomorphicTallyWitness ==
    /\ last.op = "Add"
    /\ last.x # last.y
    /\ plain[last.recv] = {MaxTally}
    /\ \A i \in Objs : plain[i] # {} /\ plain[i] # {0}
    /\ sk > 1

\* the ciphertext of message m under public key pk with scalar k
Expected(m, pk, k) ==
    [C1 |-> ScalarBaseMult(k),
     C2 |-> PointAdd(ScalarBaseMult(m), ScalarMult(pk, k))]

\* C6: Encrypt with a supplied k draws nothing and leaves the receiver with
\* C1 = k*G and C2 = message*G + k*publicKey; with k unset it draws once and
\* uses the scalar drawn for both points.
EncryptUsesK ==
    last.op = "Encrypt" =>
        /\ last.k # NilK =>
              /\ last.draws = <<>>
              /\ last.err = "nil"
              /\ ct[last.recv] = Expected(last.msg, PublicKey(sk), last.k[1])
        /\ last.k = NilK =>
              /\ Len(last.draws) = 1
              /\ last.err = "nil" =>
                    /\ last.draws[1] # RandFail
                    /\ ct[last.recv] = Expected(last.msg, PublicKey(sk), last.draws[1][1])

EncryptUsesKWitness ==
    /\ last.op = "Encrypt"
    /\ last.k = <<2>>
    /\ last.msg = 1
    /\ sk = 2
    /\ last.draws = <<>>
    /\ ct[last.recv].C1 # ct[last.recv].C2
    /\ ct[last.recv].C1 # Identity

FailsEarly(body, kg) ==
    \/ ~body.ok
    \/ body.Signature = BadSignature
    \/ kg = KeygenFail

\* C8: POST /process with a malformed body, a signature no address is
\* recovered from, or a failed key generation writes exactly one error
\* response and does not call StoreEncryptionKeys; a success response is
\* written only after StoreEncryptionKeys returned without error, and a
\* storage failure yields an error response.
NewProcessErrorPaths ==
    [][api'.req = "POST"
          => /\ Len(api'.w) = 1
             /\ FailsEarly(api'.body, api'.kg)
                   => /\ api'.w[1].status = "error"
                      /\ api'.stores = <<>>
                      /\ storage' = storage
             /\ api'.w[1].status = "ok"
                   => /\ Len(api'.stores) = 1
                      /\ api'.stores[1].err = "nil"
                      /\ api'.stores[1].pid \in DOMAIN storage'
             /\ (\E j \in 1 .. Len(api'.stores) : api'.stores[j].err # "nil")
                   => /\ api'.w[1].status = "error"
                      /\ api'.w[1].code = "ErrGenericInternalServerError"]_vars

NewProcessErrorPathsWitness ==
    /\ api.req = "POST"
    /\ ~FailsEarly(api.body, api.kg)
    /\ api.storeFails
    /\ Len(api.stores) = 1
    /\ api.stores[1].err = "storage"
    /\ api.w = <<ErrorResponse("ErrGenericInternalServerError")>>
    /\ storage # <<>>

\* the process id an id string is the hex encoding of, if any
PidOf(id) == {pid \in ProcessIDs \cup {UnknownPid} : HexEncode(Marshal(pid)) = id}

\* C9: GET /process answers an id that is not hex or is no process id with a
\* malformed-id error and does not load from storage, answers a process id
\* without stored keys with not-found, and otherwise answers with the stored
\* public key and the address, chain id and nonce of the id; it writes
\* exactly one response and leaves storage as it was.
ProcessLookup ==
    [][api'.req = "GET"
          => /\ Len(api'.w) = 1
             /\ storage' = storage
             /\ api'.stores = <<>>
             /\ api'.id \in MalformedIds
                   => /\ api'.w[1] = ErrorResponse("ErrMalformedProcessID")
                      /\ api'.loads = 0
             /\ \A pid \in PidOf(api'.id) :
                   /\ pid \notin DOMAIN storage
                         => api'.w[1] = ErrorResponse("ErrProcessNotFound")
                   /\ pid \in DOMAIN storage
                         => /\ api'.w[1].status = "ok"
                            /\ api'.w[1].body[1].EncryptionPubKey
                                  = <<storage[pid].pub[1], storage[pid].pub[2]>>
                            /\ api'.w[1].body[1].Address = pid.Address
                            /\ api'.w[1].body[1].ChainID = pid.ChainID
                            /\ api'.w[1].body[1].Nonce = pid.Nonce]_vars

ProcessLookupWitness ==
    /\ api.req = "GET"
    /\ api.w # <<>>
    /\ api.w[1].status = "ok"
    /\ api.w[1].body[1].EncryptionPubKey # <<Identity[1], Identity[2]>>
    /\ Cardinality(DOMAIN storage) > 1
    /\ \E p \in DOMAIN storage, q \in DOMAIN storage : storage[p].pub # storage[q].pub

\* C10: once keys are stored for a process id, no request replaces them.
KeysNeverReplaced ==
    [][\A pid \in DOMAIN storage :
          pid \in DOMAIN storage' /\ storage'[pid] = storage[pid]]_vars

\* the fields of a ProcessResponse that come from the key: the two
\* coordinates of the public key, and an empty state root
PublicKeyOnly(pr, pub) ==
    /\ DOMAIN pr = {"ProcessID", "Address", "ChainID", "Nonce", "EncryptionPubKey",
                    "StateRoot"}
    /\ pr.EncryptionPubKey = <<pub[1], pub[2]>>
    /\ pr.StateRoot = <<>>

\* C11: no response carries the private key of a process: an error response
\* has no body, the POST /process and GET /process responses hold the process
\* id, the address, chain id and nonce, the coordinates of the public key and
\* an empty state root, and the private key generated in POST /process is
\* passed to StoreEncryptionKeys and nowhere else.
PrivateKeyConfined ==
    /\ \A j \in 1 .. Len(api.w) :
          /\ api.w[j].status = "error" => api.w[j].body = <<>>
          /\ api.w[j].status = "ok" => Len(api.w[j].body) = 1
    /\ \A j \in 1 .. Len(api.stores) :
          /\ api.req = "POST"
          /\ api.stores[j].priv = api.kg[1]
          /\ api.stores[j].pub = PublicKey(api.kg[1])
    /\ (api.req = "POST" /\ api.w[1].status = "ok")
          => /\ PublicKeyOnly(api.w[1].body[1], PublicKey(api.kg[1]))
             /\ api.w[1].body[1].ProcessID = Marshal(api.stores[1].pid)
             /\ api.w[1].body[1].Address = 0
             /\ api.w[1].body[1].ChainID = 0
             /\ api.w[1].body[1].Nonce = 0
    /\ (api.req = "GET" /\ api.w[1].status = "ok")
          => \A pid \in PidOf(api.id) :
                /\ PublicKeyOnly(api.w[1].body[1], PublicKey(storage[pid].priv))
                /\ api.w[1].body[1].ProcessID = Marshal(pid)
                /\ api.w[1].body[1].Address = pid.Address
                /\ api.w[1].body[1].ChainID = pid.ChainID
                /\ api.w[1].body[1].Nonce = pid.Nonce

PrivateKeyConfinedWitness ==
    /\ api.req = "POST"
    /\ api.w # <<>>
    /\ api.w[1].status = "ok"
    /\ api.kg = <<NumKeys>>
    /\ api.stores # <<>>
    /\ api.stores[1].priv = NumKeys
    /\ \E pid \in DOMAIN storage : storage[pid].priv # NumKeys

SignatureCoversOuterHash ==
    vote.w # <<>>
        => /\ vote.proved => vote.w[1].Signature.over = vote.w[1].InputsHash
           /\ vote.tamper = "recensus" => ~vote.proved

\* a witness under the census of two voters is proved with the signature
\* made for the census of one
CrossCensusAccepted ==
    /\ vote.w # <<>>
    /\ vote.tamper = "recensus"
    /\ vote.proved
    /\ vote.w[1].CensusRoot = RootOf(2)
    /\ vote.w[1].Signature.over = BigToFF(InnerHash(vote.w[1]))

\* the nullifiers a voter of the model can have
NullifierValues ==
    {Nullifier(AddressOf(a), p, x) : a \in VoterKeys, p \in RandomValues, x \in RandomValues}

EncryptAddPure ==
    [][last'.op \in {"Encrypt", "Add"} => ct' = ct]_vars

\* C17: GET /process for a process id that POST /process answered with
\* returns that process id, the public key of that answer, and the address,
\* chain id and nonce of the id.
LookupReturnsIssued ==
    api.req = "GET"
        => \A e \in issued :
              e.id = api.id
                 => /\ api.w[1].status = "ok"
                    /\ api.w[1].body[1].ProcessID = Marshal(e.pid)
                    /\ api.w[1].body[1].EncryptionPubKey = e.pub
                    /\ api.w[1].body[1].Address = e.pid.Address
                    /\ api.w[1].body[1].ChainID = e.pid.ChainID
                    /\ api.w[1].body[1].Nonce = e.pid.Nonce

====
